---- MODULE Spec2Model ----
(***************************************************************************)
(* Model of the concurrent job-submission pipeline of AutoTruckBuilder_util *)
(* (pipeline.py, core/auth_edge.py, core/console_board.py, config.py).      *)
(*                                                                          *)
(* The program runs on one asyncio event loop: the code between two awaits  *)
(* of a coroutine is one atomic step.  An action of this model is one such  *)
(* step of run_pipeline or of one process_file task.  The operations that   *)
(* are awaited (row reading in a thread, the browser login in a thread, the *)
(* four HTTP operations of core.async_ops) are the environment: an action   *)
(* that resumes after an await draws the outcome of the awaited operation.  *)
(***************************************************************************)
EXTENDS Integers, Sequences, FiniteSets, TLC

\* ------------------------------------------------------------------ bounds

\* Largest number of input files of a run of Spec.
MaxFiles == 2
\* Number of auth-class responses (401/403/419) the service gives in a run of Spec.
MaxAuthFail == 2
\* Highest number k for which the folder may already hold stem(k)ext.
MaxIndex == 2
\* Number of rows of the frame given to rows_from_df.
MaxRows == 2

\* ------------------------------------------------------- program constants

\* config.py: SEMA = asyncio.Semaphore(5)
SEMA == 5

\* pipeline.py line 41: the statuses that trigger the one-shot auth retry.
AuthStatuses == {401, 403, 419}

\* The statuses an HTTPStatusError of the service is drawn from.
Statuses == AuthStatuses \cup {500}

\* The four wrapped network operations of process_file, in program order:
\* 1 fetch_singlespec_cache_by_specid_async, 2 post_search_async,
\* 3 poll_until_done_async, 4 download_out_async.
Stages == 1..4

\* SpecGate runs one file more than the gate has permits.
GateFiles == SEMA + 1

VARIABLES
    nFiles,     \* len(files)
    cpc,        \* position of run_pipeline
    bundle,     \* AsyncAuth._cookies / _headers: the acquisition each comes from (0: None)
    nAcq,       \* number of completed credential acquisitions (names the next one)
    sema,       \* SEMA._value: free permits of the gate
    bars,       \* ConsoleBoard._bars
    pc,         \* position of each process_file task
    stage,      \* the wrapped operation a task is in
    client,     \* the client of line 50 of each task
    c2,         \* the client of line 45 of each task, inside with_auth_retry
    results,    \* outcome of each task, as gather collects it
    failures,   \* run_pipeline's result
    durations,  \* run_pipeline's result
    inv,        \* record of the current (or last) with_auth_retry invocation of a task
    fresh,      \* whether the client of the call a task began last was built from the
                \* bundle current at that moment
    fault,      \* the fatal failure the environment gave a task's own operation
    flaky,      \* the files whose operations the environment lets fail
    authLeft,   \* auth-class responses the environment may still give
    failLeft,   \* fatal failures the environment may still give
    summary,    \* the counts line print_summary has printed
    nRefresh,   \* how often each task has called auth.refresh() so far
    uf,         \* one call of unique_filename: its arguments, locals and position
    rx          \* one call of rows_from_df: its arguments, locals and position

vars == <<nFiles, cpc, bundle, nAcq, sema, bars, pc, stage, client, c2, results,
          failures, durations, inv, fresh, fault, flaky, authLeft, failLeft,
          summary, nRefresh, uf, rx>>

\* The state of the two helper functions, which no step of the pipeline touches.
helpers == <<uf, rx>>

Workers == 0..(nFiles - 1)

\* ------------------------------------------------------------------ values

NoBundle == [cookies |-> 0, headers |-> 0]

\* get_system_session(): one login gives the cookies and headers of one session.
Login(id) == [cookies |-> id, headers |-> id]

\* A refresh() that stores the new cookies and leaves the headers of the old bundle.
Install_CookiesOnly(old, acq) == [cookies |-> acq.cookies, headers |-> old.headers]

\* AsyncAuth.refresh, lines 209-210: both fields are assigned in one statement.
Install(old, acq) == [cookies |-> acq.cookies, headers |-> acq.headers]

\* AsyncAuth.new_client: a client carrying the stored headers and cookies.
NewClient(b) == [cookies |-> b.cookies, headers |-> b.headers]

Pending == [kind |-> "pending", status |-> 0]
Dt == [kind |-> "dt", status |-> 0]
Exc(k) == [kind |-> k, status |-> 0]
HTTPStatusError(s) == [kind |-> "HTTPStatusError", status |-> s]
NoRowsError == Exc("ValueError:No rows found in Excel")
HeaderError == Exc("ValueError:Invalid headers")
OtherError == Exc("OtherError")
LoginError == Exc("LoginError")
NoError == Exc("none")

ExceptionKinds == {"HTTPStatusError", "ValueError:No rows found in Excel",
                   "ValueError:Invalid headers", "OtherError", "LoginError"}

\* The ways a call of a network operation can fail.
CallErrors == {HTTPStatusError(s) : s \in Statuses} \cup {OtherError}

\* A wrapper that takes every HTTPStatusError for an auth failure.
IsAuthError_AnyStatus(e) == e.kind = "HTTPStatusError"

\* pipeline.py lines 40-41: e is an HTTPStatusError whose status is 401, 403 or
\* 419 (e.response is always set on an HTTPStatusError and an httpx response is
\* truthy whatever its status).
IsAuthError(e) == e.kind = "HTTPStatusError" /\ e.status \in AuthStatuses

\* What the environment gave a call, when it is not an auth-class response.
NonAuth(e) == IF e.kind = "HTTPStatusError" /\ e.status \in {401, 403, 419}
              THEN NoError ELSE e

\* The record of one with_auth_retry invocation: the calls of the operation and
\* of refresh() it made, whether its first call got an auth-class response, the
\* other failure its first call got, the failure its retried call got, and the
\* bundle its refresh() stored.
NewInv == [calls |-> 0, refreshes |-> 0, auth |-> FALSE, first |-> NoError,
           second |-> NoError, installed |-> NoBundle]

NewBar == [n |-> 0, closed |-> FALSE, red |-> FALSE]

\* Nothing printed yet.
NoSummary == [files |-> -1, failed |-> -1, successful |-> -1]

\* No call of unique_filename, and none of rows_from_df, is under way.
UfIdle == [pc |-> "idle"]
RxIdle == [pc |-> "idle"]

Min(a, b) == IF a < b THEN a ELSE b
Max(a, b) == IF a > b THEN a ELSE b

\* ------------------------------------------------------------ ConsoleBoard

SetProgress(b, i, percent) ==
    IF i \in DOMAIN b THEN [b EXCEPT ![i].n = Max(0, Min(100, percent))] ELSE b

Complete(b, i) ==
    IF i \in DOMAIN b THEN [b EXCEPT ![i].n = 100, ![i].closed = TRUE] ELSE b

Fail(b, i) ==
    IF i \in DOMAIN b THEN [b EXCEPT ![i].red = TRUE, ![i].closed = TRUE] ELSE b

CloseAll(b) == [i \in DOMAIN b |-> [b[i] EXCEPT !.closed = TRUE]]

\* The percent process_file reports right before it calls the operation of stage s
\* (lines 52, 61, 67, 73; line 58 reports 40 before 45).
StagePct(s) == CASE s = 1 -> 25 [] s = 2 -> 45 [] s = 3 -> 55 [] OTHER -> 80

\* ------------------------------------------------------------ initial state

InitPipeline(n, fl, auth, fail) ==
    /\ nFiles = n
    /\ flaky = fl
    /\ cpc = "start"
    /\ bundle = NoBundle
    /\ nAcq = 0
    /\ sema = SEMA
    /\ bars = [i \in {} |-> NewBar]
    /\ pc = [w \in 0..(n - 1) |-> "none"]
    /\ stage = [w \in 0..(n - 1) |-> 0]
    /\ client = [w \in 0..(n - 1) |-> NoBundle]
    /\ c2 = [w \in 0..(n - 1) |-> NoBundle]
    /\ results = [w \in 0..(n - 1) |-> Pending]
    /\ failures = 0
    /\ durations = <<>>
    /\ inv = [w \in 0..(n - 1) |-> NewInv]
    /\ fresh = [w \in 0..(n - 1) |-> TRUE]
    /\ fault = [w \in 0..(n - 1) |-> "none"]
    /\ authLeft = auth
    /\ failLeft = fail
    /\ summary = NoSummary
    /\ nRefresh = [w \in 0..(n - 1) |-> 0]

\* The pipeline at its start; neither helper function is being called.
InitWith(n, fl, auth, fail) ==
    /\ InitPipeline(n, fl, auth, fail)
    /\ uf = UfIdle
    /\ rx = RxIdle

\* main() calls run_pipeline with at least one file.  Every file may fail.
Init == \E n \in 1..MaxFiles : InitWith(n, 0..(n - 1), MaxAuthFail, n)

\* The batch of three files of the specification's example.  Every file may fail.
InitThree == InitWith(3, 0..2, MaxAuthFail, 3)

\* One file more than the gate has permits; the operations of the first file
\* are the ones that may fail, and the service gives no auth-class response.
InitGate == InitWith(GateFiles, {0}, 0, Cardinality({0}))

\* ------------------------------------------------------------ run_pipeline

\* A run_pipeline that starts the login and creates the tasks without awaiting it.
RunPipeline_Begin_NoAwait ==
    /\ cpc = "start"
    /\ cpc' = "auth"
    /\ bars' = SetProgress([i \in Workers |-> NewBar], 0, 10)
    /\ pc' = [w \in Workers |-> "created"]
    /\ UNCHANGED <<helpers, summary, nRefresh, nFiles, flaky, bundle, nAcq, sema, stage, client, c2, results,
                   failures, durations, inv, fresh, fault, authLeft, failLeft>>

\* Lines 85-88: auth = AsyncAuth(); await auth.refresh() starts the login thread.
RunPipeline_Begin ==
    /\ cpc = "start"
    /\ cpc' = "auth"
    /\ UNCHANGED <<helpers, summary, nRefresh, nFiles, flaky, bundle, nAcq, sema, bars, pc, stage, client, c2, results,
                   failures, durations, inv, fresh, fault, authLeft, failLeft>>

\* Lines 88-95: the login returned, refresh() stores the bundle, the board is
\* built, slot 0 is set to 10 and gather() creates one task per file.
RunPipeline_Launch ==
    /\ cpc = "auth"
    /\ nAcq' = nAcq + 1
    /\ bundle' = Install(bundle, Login(nAcq + 1))
    /\ bars' = SetProgress([i \in Workers |-> NewBar], 0, 10)
    /\ pc' = [w \in Workers |-> "created"]
    /\ cpc' = "gather"
    /\ UNCHANGED <<helpers, summary, nRefresh, nFiles, flaky, sema, stage, client, c2, results, failures, durations,
                   inv, fresh, fault, authLeft, failLeft>>

\* Line 88: the login raised; the exception leaves run_pipeline.
RunPipeline_AuthFail ==
    /\ cpc = "auth"
    /\ cpc' = "raised"
    /\ UNCHANGED <<helpers, summary, nRefresh, nFiles, flaky, bundle, nAcq, sema, bars, pc, stage, client, c2, results,
                   failures, durations, inv, fresh, fault, authLeft, failLeft>>

\* An aggregation that counts only ValueError as a failure.
IsException_ValueErrorOnly(r) ==
    r.kind \in {"ValueError:No rows found in Excel", "ValueError:Invalid headers"}

\* isinstance(res, Exception), line 102.
IsException(r) == r.kind \in ExceptionKinds

\* Lines 100-106: the loop over zip(files, results), from file i on.
RECURSIVE Aggregate(_, _, _)
Aggregate(res, i, n) ==
    IF i >= n THEN [failures |-> 0, durations |-> <<>>]
    ELSE LET rest == Aggregate(res, i + 1, n)
         IN IF IsException(res[i])
            THEN [failures |-> rest.failures + 1, durations |-> rest.durations]
            ELSE [failures |-> rest.failures, durations |-> <<i>> \o rest.durations]

Terminal == {"Done", "Failed"}

\* Lines 95-108: gather() returns once every task has finished.
RunPipeline_Return ==
    /\ cpc = "gather"
    /\ \A w \in Workers : pc[w] \in Terminal
    /\ bars' = CloseAll(bars)
    /\ failures' = Aggregate(results, 0, nFiles).failures
    /\ durations' = Aggregate(results, 0, nFiles).durations
    /\ cpc' = "returned"
    /\ UNCHANGED <<helpers, summary, nRefresh, nFiles, flaky, bundle, nAcq, sema, pc, stage, client, c2, results,
                   inv, fresh, fault, authLeft, failLeft>>

\* summary.py line 7: the counts line of print_summary(len(files), failures,
\* durations, total_time).
PrintSummary(total, fails, durs) ==
    [files |-> total, failed |-> fails, successful |-> Len(durs)]

\* main.py lines 42-46: asyncio.run returned the result of run_pipeline; the
\* summary is printed and main ends.  (When run_pipeline raised, the exception
\* leaves asyncio.run and main on line 42: nothing follows.)
Main_Summary ==
    /\ cpc = "returned"
    /\ summary' = PrintSummary(nFiles, failures, durations)
    /\ cpc' = "exited"
    /\ UNCHANGED <<helpers, nRefresh, nFiles, flaky, bundle, nAcq, sema, bars, pc, stage, client, c2,
                   results, failures, durations, inv, fresh, fault, authLeft, failLeft>>

\* ------------------------------------------------------------ process_file

\* A failure that cancels the unfinished sibling tasks (a task group, or a
\* gather() without return_exceptions whose caller cancels the rest).
Raise_CancelsSiblings(w, e) ==
    /\ pc' = [v \in Workers |->
                IF v = w \/ pc[v] \notin {"Done", "Failed"} THEN "Failed" ELSE pc[v]]
    /\ results' = [v \in Workers |->
                     IF v = w THEN e
                     ELSE IF pc[v] \notin {"Done", "Failed"} THEN Exc("CancelledError")
                     ELSE results[v]]
    /\ sema' = SEMA
    /\ client' = [v \in Workers |-> NoBundle]
    /\ c2' = [v \in Workers |-> NoBundle]
    /\ stage' = [v \in Workers |-> 0]

\* A failure path that leaves process_file without releasing the permit.
Raise_KeepsPermit(w, e) ==
    /\ pc' = [pc EXCEPT ![w] = "Failed"]
    /\ results' = [results EXCEPT ![w] = e]
    /\ sema' = sema
    /\ client' = [client EXCEPT ![w] = NoBundle]
    /\ c2' = [c2 EXCEPT ![w] = NoBundle]
    /\ stage' = [stage EXCEPT ![w] = 0]

\* An exception e leaves process_file: the async with blocks are left (the client
\* is closed, the permit of SEMA is released) and the task ends with e.
Raise(w, e) ==
    /\ pc' = [pc EXCEPT ![w] = "Failed"]
    /\ results' = [results EXCEPT ![w] = e]
    /\ sema' = sema + 1
    /\ client' = [client EXCEPT ![w] = NoBundle]
    /\ c2' = [c2 EXCEPT ![w] = NoBundle]
    /\ stage' = [stage EXCEPT ![w] = 0]

\* A task that enters its work without waiting for a permit.
Acquire_NoGate(w) ==
    /\ pc[w] = "created"
    /\ sema' = sema - 1
    /\ bars' = SetProgress(bars, w, 5)
    /\ pc' = [pc EXCEPT ![w] = "reading"]
    /\ UNCHANGED <<helpers, summary, nRefresh, nFiles, flaky, cpc, bundle, nAcq, stage, client, c2, results, failures,
                   durations, inv, fresh, fault, authLeft, failLeft>>

\* A process_file that opens its client before it reads the rows.
Acquire_BuildsClientFirst(w) ==
    /\ pc[w] = "created"
    /\ sema > 0
    /\ sema' = sema - 1
    /\ bars' = SetProgress(bars, w, 5)
    /\ pc' = [pc EXCEPT ![w] = "reading"]
    /\ client' = [client EXCEPT ![w] = NewClient(bundle)]
    /\ UNCHANGED <<helpers, summary, nRefresh, nFiles, flaky, cpc, bundle, nAcq, stage, c2, results, failures,
                   durations, inv, fresh, fault, authLeft, failLeft>>

\* Line 27: async with SEMA; a task waits here while no permit is free.
\* Line 28 reports 5 and line 29 starts reading the rows in a thread.
Acquire(w) ==
    /\ pc[w] = "created"
    /\ sema > 0
    /\ sema' = sema - 1
    /\ bars' = SetProgress(bars, w, 5)
    /\ pc' = [pc EXCEPT ![w] = "reading"]
    /\ UNCHANGED <<helpers, summary, nRefresh, nFiles, flaky, cpc, bundle, nAcq, stage, client, c2, results, failures,
                   durations, inv, fresh, fault, authLeft, failLeft>>

\* with_auth_retry is entered for stage s with the client of line 50 (lines 53,
\* 62, 68, 75 pass client=client) and makes its first call, line 39.
BeginCall(w, s, cl) ==
    /\ stage' = [stage EXCEPT ![w] = s]
    /\ inv' = [inv EXCEPT ![w] = [NewInv EXCEPT !.calls = 1]]
    /\ fresh' = [fresh EXCEPT ![w] = (cl = NewClient(bundle))]
    /\ pc' = [pc EXCEPT ![w] = "call"]

\* Lines 29-54: rows were read; 15 and 25 are reported, the client is built and
\* the single-spec fetch is called.
RowsRead(w) ==
    /\ pc[w] = "reading"
    /\ bars' = SetProgress(SetProgress(bars, w, 15), w, StagePct(1))
    /\ client' = [client EXCEPT ![w] = NewClient(bundle)]
    /\ BeginCall(w, 1, NewClient(bundle))
    /\ UNCHANGED <<helpers, summary, nRefresh, nFiles, flaky, cpc, bundle, nAcq, sema, c2, results, failures,
                   durations, fault, authLeft, failLeft>>

\* A process_file that reports the missing rows on the first slot of the board.
RowsEmpty_UsesSlotZero(w) ==
    /\ pc[w] = "reading"
    /\ w \in flaky
    /\ failLeft > 0
    /\ failLeft' = failLeft - 1
    /\ bars' = Fail(bars, 0)
    /\ fault' = [fault EXCEPT ![w] = "rows"]
    /\ Raise(w, NoRowsError)
    /\ UNCHANGED <<helpers, summary, nRefresh, nFiles, flaky, cpc, bundle, nAcq, failures, durations, inv,
                   fresh, authLeft>>

\* Lines 30-32: no rows; the slot is marked failed and ValueError is raised.
RowsEmpty(w) ==
    /\ pc[w] = "reading"
    /\ w \in flaky
    /\ failLeft > 0
    /\ failLeft' = failLeft - 1
    /\ bars' = Fail(bars, w)
    /\ fault' = [fault EXCEPT ![w] = "rows"]
    /\ Raise(w, NoRowsError)
    /\ UNCHANGED <<helpers, summary, nRefresh, nFiles, flaky, cpc, bundle, nAcq, failures, durations, inv,
                   fresh, authLeft>>

\* Line 29: read_rows_from_excel raised (validate_headers, excel.py line 58).
RowsInvalid(w) ==
    /\ pc[w] = "reading"
    /\ w \in flaky
    /\ failLeft > 0
    /\ failLeft' = failLeft - 1
    /\ fault' = [fault EXCEPT ![w] = "headers"]
    /\ Raise(w, HeaderError)
    /\ UNCHANGED <<helpers, summary, nRefresh, nFiles, flaky, cpc, bundle, nAcq, bars, failures, durations, inv,
                   fresh, authLeft>>

\* A process_file that downloads right after post_search, without polling.
Advance_SkipsPoll(w) ==
    IF stage[w] < 4
    THEN /\ bars' = SetProgress(IF stage[w] = 1 THEN SetProgress(bars, w, 40) ELSE bars,
                                w, StagePct(stage[w] + 1))
         /\ BeginCall(w, IF stage[w] = 2 THEN 4 ELSE stage[w] + 1, client[w])
         /\ c2' = [c2 EXCEPT ![w] = NoBundle]
         /\ UNCHANGED <<sema, client, results>>
    ELSE /\ bars' = Complete(bars, w)
         /\ sema' = sema + 1
         /\ results' = [results EXCEPT ![w] = Dt]
         /\ pc' = [pc EXCEPT ![w] = "Done"]
         /\ client' = [client EXCEPT ![w] = NoBundle]
         /\ c2' = [c2 EXCEPT ![w] = NoBundle]
         /\ stage' = [stage EXCEPT ![w] = 0]
         /\ inv' = [inv EXCEPT ![w] = NewInv]
         /\ UNCHANGED fresh

\* A process_file that returns its duration without releasing the permit.
Advance_KeepsPermit(w) ==
    IF stage[w] < 4
    THEN /\ bars' = SetProgress(IF stage[w] = 1 THEN SetProgress(bars, w, 40) ELSE bars,
                                w, StagePct(stage[w] + 1))
         /\ BeginCall(w, stage[w] + 1, client[w])
         /\ c2' = [c2 EXCEPT ![w] = NoBundle]
         /\ UNCHANGED <<sema, client, results>>
    ELSE /\ bars' = Complete(bars, w)
         /\ sema' = sema
         /\ results' = [results EXCEPT ![w] = Dt]
         /\ pc' = [pc EXCEPT ![w] = "Done"]
         /\ client' = [client EXCEPT ![w] = NoBundle]
         /\ c2' = [c2 EXCEPT ![w] = NoBundle]
         /\ stage' = [stage EXCEPT ![w] = 0]
         /\ inv' = [inv EXCEPT ![w] = NewInv]
         /\ UNCHANGED fresh

\* with_auth_retry returned for the stage of w: lines 58-76 report the next
\* percent and call the next operation with the client of line 50; after the
\* download, lines 79-81 leave both async with blocks and complete the slot.
Advance(w) ==
    IF stage[w] < 4
    THEN /\ bars' = SetProgress(IF stage[w] = 1 THEN SetProgress(bars, w, 40) ELSE bars,
                                w, StagePct(stage[w] + 1))
         /\ BeginCall(w, stage[w] + 1, client[w])
         /\ c2' = [c2 EXCEPT ![w] = NoBundle]
         /\ UNCHANGED <<sema, client, results>>
    ELSE /\ bars' = Complete(bars, w)
         /\ sema' = sema + 1
         /\ results' = [results EXCEPT ![w] = Dt]
         /\ pc' = [pc EXCEPT ![w] = "Done"]
         /\ client' = [client EXCEPT ![w] = NoBundle]
         /\ c2' = [c2 EXCEPT ![w] = NoBundle]
         /\ stage' = [stage EXCEPT ![w] = 0]
         /\ inv' = [inv EXCEPT ![w] = NewInv]
         /\ UNCHANGED fresh

\* Line 39: the first call returned.
CallOk(w) ==
    /\ pc[w] = "call"
    /\ Advance(w)
    /\ UNCHANGED <<helpers, summary, nRefresh, nFiles, flaky, cpc, bundle, nAcq, failures, durations, fault,
                   authLeft, failLeft>>

\* What the environment still has budget for.
MayGive(w, e) ==
    /\ w \in flaky
    /\ IF e.kind = "HTTPStatusError" /\ e.status \in AuthStatuses
       THEN authLeft > 0 ELSE failLeft > 0

Spend(e) ==
    IF e.kind = "HTTPStatusError" /\ e.status \in AuthStatuses
    THEN authLeft' = authLeft - 1 /\ UNCHANGED failLeft
    ELSE failLeft' = failLeft - 1 /\ UNCHANGED authLeft

\* Lines 40-44: the first call raised an auth-class HTTPStatusError; 20 is
\* reported and auth.refresh() starts the login thread.
CallAuthError(w, e) ==
    /\ pc[w] = "call"
    /\ MayGive(w, e)
    /\ IsAuthError(e)
    /\ Spend(e)
    /\ bars' = SetProgress(bars, w, 20)
    /\ inv' = [inv EXCEPT ![w].refreshes = @ + 1,
                          ![w].auth = (e.kind = "HTTPStatusError" /\ e.status \in {401, 403, 419}),
                          ![w].first = NonAuth(e)]
    /\ nRefresh' = [nRefresh EXCEPT ![w] = @ + 1]
    /\ pc' = [pc EXCEPT ![w] = "refresh"]
    /\ UNCHANGED <<helpers, summary, nFiles, flaky, cpc, bundle, nAcq, sema, stage, client, c2, results,
                   failures, durations, fresh, fault>>

\* Lines 40-42: the first call raised anything else; it is re-raised.
CallOtherError(w, e) ==
    /\ pc[w] = "call"
    /\ MayGive(w, e)
    /\ ~IsAuthError(e)
    /\ Spend(e)
    /\ inv' = [inv EXCEPT ![w].first = NonAuth(e)]
    /\ fault' = [fault EXCEPT ![w] = "call"]
    /\ Raise(w, e)
    /\ UNCHANGED <<helpers, summary, nRefresh, nFiles, flaky, cpc, bundle, nAcq, bars, failures, durations,
                   fresh>>

\* A wrapper that builds the retry client before the refresh has stored the bundle.
RefreshOk_ClientBeforeRefresh(w) ==
    /\ pc[w] = "refresh"
    /\ nAcq' = nAcq + 1
    /\ bundle' = Install(bundle, Login(nAcq + 1))
    /\ c2' = [c2 EXCEPT ![w] = NewClient(bundle)]
    /\ inv' = [inv EXCEPT ![w].calls = @ + 1, ![w].installed = bundle']
    /\ fresh' = [fresh EXCEPT ![w] = (c2'[w] = NewClient(bundle'))]
    /\ pc' = [pc EXCEPT ![w] = "retry"]
    /\ UNCHANGED <<helpers, summary, nRefresh, nFiles, flaky, cpc, sema, bars, stage, client, results, failures,
                   durations, fault, authLeft, failLeft>>

\* Lines 44-47 (auth_edge.py 208-210): the login returned; refresh() stores the
\* bundle, new_client() builds c2 and the operation is called again with it.
RefreshOk(w) ==
    /\ pc[w] = "refresh"
    /\ nAcq' = nAcq + 1
    /\ bundle' = Install(bundle, Login(nAcq + 1))
    /\ c2' = [c2 EXCEPT ![w] = NewClient(bundle')]
    /\ inv' = [inv EXCEPT ![w].calls = @ + 1, ![w].installed = bundle']
    /\ fresh' = [fresh EXCEPT ![w] = (c2'[w] = NewClient(bundle'))]
    /\ pc' = [pc EXCEPT ![w] = "retry"]
    /\ UNCHANGED <<helpers, summary, nRefresh, nFiles, flaky, cpc, sema, bars, stage, client, results, failures,
                   durations, fault, authLeft, failLeft>>

\* A refresh that drops the stored bundle when the login fails.
RefreshFail_ClearsBundle(w) ==
    /\ pc[w] = "refresh"
    /\ w \in flaky
    /\ failLeft > 0
    /\ failLeft' = failLeft - 1
    /\ fault' = [fault EXCEPT ![w] = "refresh"]
    /\ Raise(w, LoginError)
    /\ bundle' = NoBundle
    /\ UNCHANGED <<helpers, summary, nRefresh, nFiles, flaky, cpc, nAcq, bars, failures, durations, inv,
                   fresh, authLeft>>

\* Line 44 (auth_edge.py 208): the login raised; the exception leaves
\* with_auth_retry and process_file.
RefreshFail(w) ==
    /\ pc[w] = "refresh"
    /\ w \in flaky
    /\ failLeft > 0
    /\ failLeft' = failLeft - 1
    /\ fault' = [fault EXCEPT ![w] = "refresh"]
    /\ Raise(w, LoginError)
    /\ UNCHANGED <<helpers, summary, nRefresh, nFiles, flaky, cpc, bundle, nAcq, bars, failures, durations, inv,
                   fresh, authLeft>>

\* Line 47: the retried call returned.
RetryOk(w) ==
    /\ pc[w] = "retry"
    /\ Advance(w)
    /\ UNCHANGED <<helpers, summary, nRefresh, nFiles, flaky, cpc, bundle, nAcq, failures, durations, fault,
                   authLeft, failLeft>>

\* A wrapper that loops: an auth-class failure of the retried call refreshes again.
RetryFail_RetriesAgain(w, e) ==
    /\ pc[w] = "retry"
    /\ MayGive(w, e)
    /\ Spend(e)
    /\ IF IsAuthError(e)
       THEN /\ bars' = SetProgress(bars, w, 20)
            /\ inv' = [inv EXCEPT ![w].refreshes = @ + 1]
            /\ nRefresh' = [nRefresh EXCEPT ![w] = @ + 1]
            /\ pc' = [pc EXCEPT ![w] = "refresh"]
            /\ UNCHANGED <<sema, stage, client, c2, results, fault>>
       ELSE /\ inv' = [inv EXCEPT ![w].second = e]
            /\ fault' = [fault EXCEPT ![w] = "retry"]
            /\ Raise(w, e)
            /\ UNCHANGED <<bars, nRefresh>>
    /\ UNCHANGED <<helpers, summary, nFiles, flaky, cpc, bundle, nAcq, failures, durations, fresh>>

\* Line 47: the retried call raised; nothing catches it.
RetryFail(w, e) ==
    /\ pc[w] = "retry"
    /\ MayGive(w, e)
    /\ Spend(e)
    /\ inv' = [inv EXCEPT ![w].second = e]
    /\ fault' = [fault EXCEPT ![w] = "retry"]
    /\ Raise(w, e)
    /\ UNCHANGED <<helpers, summary, nRefresh, nFiles, flaky, cpc, bundle, nAcq, bars, failures, durations,
                   fresh>>

\* ------------------------------------------------------------ specification

Next ==
    \/ RunPipeline_Begin
    \/ RunPipeline_Launch
    \/ RunPipeline_AuthFail
    \/ RunPipeline_Return
    \/ Main_Summary
    \/ \E w \in Workers : Acquire(w)
    \/ \E w \in Workers : RowsRead(w)
    \/ \E w \in Workers : RowsEmpty(w)
    \/ \E w \in Workers : RowsInvalid(w)
    \/ \E w \in Workers : CallOk(w)
    \/ \E w \in Workers, e \in CallErrors : CallAuthError(w, e)
    \/ \E w \in Workers, e \in CallErrors : CallOtherError(w, e)
    \/ \E w \in Workers : RefreshOk(w)
    \/ \E w \in Workers : RefreshFail(w)
    \/ \E w \in Workers : RetryOk(w)
    \/ \E w \in Workers, e \in CallErrors : RetryFail(w, e)

Spec == Init /\ [][Next]_vars

\* The same program on a batch of three files.
SpecThree == InitThree /\ [][Next]_vars

\* The steps of a run in which the service gives no auth-class response.
NextGate ==
    \/ RunPipeline_Begin
    \/ RunPipeline_Launch
    \/ RunPipeline_AuthFail
    \/ RunPipeline_Return
    \/ Main_Summary
    \/ \E w \in Workers : Acquire(w)
    \/ \E w \in Workers : RowsRead(w)
    \/ \E w \in Workers : RowsEmpty(w)
    \/ \E w \in Workers : RowsInvalid(w)
    \/ \E w \in Workers : CallOk(w)
    \/ \E w \in Workers, e \in CallErrors : CallOtherError(w, e)

\* The same program with one file more than the gate has permits.
SpecGate == InitGate /\ [][NextGate]_vars

\* Two files; the service may answer every call of both with an auth status
\* (four first calls and one retried call each), and every file may fail.
InitRefresh == InitWith(2, {0, 1}, 2 * (Cardinality(Stages) + 1), 2)

\* The program with an auth status possible at every call.
SpecRefresh == InitRefresh /\ [][Next]_vars

\* Either one file more than the gate has permits, with no auth-class response,
\* or two files with an auth status possible at every call.
InitPermit == InitGate \/ InitRefresh

\* The program on a batch that fills the gate and on one that refreshes.
SpecPermit == InitPermit /\ [][Next]_vars

\* --------------------------------------------------------- unique_filename

\* The variables of the pipeline, which the helper functions do not touch.
pipeline == <<nFiles, cpc, bundle, nAcq, sema, bars, pc, stage, client, c2, results,
              failures, durations, inv, fresh, fault, flaky, authLeft, failLeft, summary,
              nRefresh>>

\* A file name is a sequence of characters.
Digit == <<"0", "1", "2", "3", "4", "5", "6", "7", "8", "9">>

\* str(i) of the f-string on line 127, for i >= 0.
RECURSIVE Str(_)
Str(i) == IF i < 10 THEN <<Digit[i + 1]>> ELSE Str(i \div 10) \o <<Digit[(i % 10) + 1]>>

\* name.rfind("."), counted from 1; 0 when there is no dot.
RFindDot(name) ==
    LET at == {k \in 1..Len(name) : name[k] = "."}
    IN  IF at = {} THEN 0 ELSE CHOOSE k \in at : \A m \in at : m <= k

\* Path.suffix, line 123: the part from the last dot on, unless that dot is
\* the first or the last character of the name.
Suffix(name) ==
    LET k == RFindDot(name)
    IN  IF 1 < k /\ k < Len(name) THEN SubSeq(name, k, Len(name)) ELSE <<>>

\* Path.stem, line 122: the name without its suffix.
Stem(name) ==
    LET k == RFindDot(name)
    IN  IF 1 < k /\ k < Len(name) THEN SubSeq(name, 1, k - 1) ELSE name

\* f"{stem}({i}){ext}", line 127.
Numbered(stem, i, ext) == stem \o <<"(">> \o Str(i) \o <<")">> \o ext

\* The names asked for: with and without suffix, with a leading and a trailing
\* dot, with two dots, and one that already carries a number.
NamePool ==
    { <<"r">>, <<"r", ".", "z">>, <<".", "z">>, <<"r", ".">>,
      <<"a", ".", "b", ".", "z">>, <<"r", "(", "1", ")", ".", "z">> }

\* The names a folder may hold when name is asked for: name itself, its first
\* MaxIndex numbered forms and the name with the number after the suffix.
Folder(name) ==
    {name, name \o <<"(", "1", ")">>}
        \cup {Numbered(Stem(name), i, Suffix(name)) : i \in 1..MaxIndex}

\* unique_filename(path) is called in a folder that holds the names of existing.
InitUnique ==
    /\ InitPipeline(1, {}, 0, 0)
    /\ rx = RxIdle
    /\ \E name \in NamePool : \E existing \in SUBSET Folder(name) :
           uf = [pc |-> "start", name |-> name, existing |-> existing,
                 stem |-> <<>>, ext |-> <<>>, candidate |-> <<>>, i |-> 0]

\* A unique_filename that numbers the names from 0.
UniqueFilename_Begin_FromZero ==
    /\ uf.pc = "start"
    /\ uf' = [uf EXCEPT !.pc = "while", !.stem = Stem(uf.name), !.ext = Suffix(uf.name),
                        !.candidate = uf.name, !.i = 0]
    /\ UNCHANGED <<pipeline, rx>>

\* Lines 120-125: stem and suffix are taken, the candidate is the name itself.
UniqueFilename_Begin ==
    /\ uf.pc = "start"
    /\ uf' = [uf EXCEPT !.pc = "while", !.stem = Stem(uf.name), !.ext = Suffix(uf.name),
                        !.candidate = uf.name, !.i = 1]
    /\ UNCHANGED <<pipeline, rx>>

\* Lines 126-128: the candidate exists; the next numbered name is tried.
UniqueFilename_Loop ==
    /\ uf.pc = "while"
    /\ uf.candidate \in uf.existing
    /\ uf' = [uf EXCEPT !.candidate = Numbered(uf.stem, uf.i, uf.ext), !.i = uf.i + 1]
    /\ UNCHANGED <<pipeline, rx>>

\* Lines 126 and 129: the candidate does not exist and is returned.
UniqueFilename_Return ==
    /\ uf.pc = "while"
    /\ uf.candidate \notin uf.existing
    /\ uf' = [uf EXCEPT !.pc = "returned"]
    /\ UNCHANGED <<pipeline, rx>>

NextUnique ==
    \/ UniqueFilename_Begin
    \/ UniqueFilename_Loop
    \/ UniqueFilename_Return

\* unique_filename called on every name of the pool in every folder.
SpecUnique == InitUnique /\ [][NextUnique]_vars

\* ------------------------------------------------------------ rows_from_df

\* A cell is a sequence of characters (dtype=str, NaN filled with "").
UpperCase == <<"A", "B", "C", "D", "E", "F", "G", "H", "I", "J", "K", "L", "M",
               "N", "O", "P", "Q", "R", "S", "T", "U", "V", "W", "X", "Y", "Z">>
LowerCase == <<"a", "b", "c", "d", "e", "f", "g", "h", "i", "j", "k", "l", "m",
               "n", "o", "p", "q", "r", "s", "t", "u", "v", "w", "x", "y", "z">>

\* str.lower(), one character.
LowerChar(c) ==
    IF \E k \in 1..Len(UpperCase) : UpperCase[k] = c
    THEN LowerCase[CHOOSE k \in 1..Len(UpperCase) : UpperCase[k] = c]
    ELSE c

\* str.lower().
Lower(t) == [k \in 1..Len(t) |-> LowerChar(t[k])]

IsSpace(c) == c \in {" ", "\t", "\n"}

\* str.strip(): white space is removed at both ends, not inside.
RECURSIVE LStrip(_)
LStrip(t) == IF t # <<>> /\ IsSpace(Head(t)) THEN LStrip(Tail(t)) ELSE t

RECURSIVE RStrip(_)
RStrip(t) ==
    IF t # <<>> /\ IsSpace(t[Len(t)]) THEN RStrip(SubSeq(t, 1, Len(t) - 1)) ELSE t

Strip(t) == RStrip(LStrip(t))

\* _TRUTHY, line 15; CHECK and HEAVYCHECK stand for the two check-mark characters.
TRUTHY ==
    { <<"1">>, <<"y">>, <<"y", "e", "s">>, <<"t", "r", "u", "e">>, <<"t">>, <<"x">>,
      <<"CHECK">>, <<"HEAVYCHECK">>, <<"o", "k">> }

\* A Python value handed to str(): a cell or a bool.
PyCell(t) == [py |-> "str", s |-> t, b |-> FALSE]
PyBool(v) == [py |-> "bool", s |-> <<>>, b |-> v]

\* str(x): a cell is itself, True is "True" and False is "False".
PyStr(x) ==
    IF x.py = "str" THEN x.s
    ELSE IF x.b THEN <<"T", "r", "u", "e">> ELSE <<"F", "a", "l", "s", "e">>

\* _to_bool, lines 22-24.
ToBool(x) == Lower(Strip(PyStr(x))) \in TRUTHY

\* _dedupe_preserve_order, lines 26-28: first occurrences, in order, without
\* the empty values.
RECURSIVE DedupePreserveOrder(_, _)
DedupePreserveOrder(values, seen) ==
    IF values = <<>> THEN <<>>
    ELSE IF Head(values) = <<>> \/ Head(values) \in seen
         THEN DedupePreserveOrder(Tail(values), seen)
         ELSE <<Head(values)>> \o DedupePreserveOrder(Tail(values), seen \cup {Head(values)})

\* r.get(c, default) on a row whose labels are distinct.
Get(r, c, default) == IF c \in DOMAIN r THEN PyCell(r[c]) ELSE default

\* The layouts validate_headers lets through (lines 43-62): gg first, no gg, and
\* no gg among the first four with a column named gg among the change variants.
BaseHeaders == <<"from", "specification", "effectivityweek", "configname">>
Layouts ==
    { <<"gg">> \o BaseHeaders \o <<"cv1">>,
      BaseHeaders \o <<"cv1">>,
      BaseHeaders \o <<"gg">> }

\* The cells a column may hold.
CellPool(c) ==
    CASE c = "gg" -> { <<>>, <<" ">>, <<" ", "Y", "e", "s", " ">>, <<"n", "o">>,
                       <<"O", "K">>, <<"CHECK">>, <<"F", "a", "l", "s", "e">> }
      [] c = "specification" -> { <<>>, <<" ">>, <<" ", "s">> }
      [] c = "configname" -> { <<>>, <<"c">> }
      [] c = "cv1" -> { <<"v", " ">> }
      [] OTHER -> { <<"f">> }

\* The rows over the column labels: one cell of its pool for every label.
RECURSIVE RowsOver(_)
RowsOver(labels) ==
    IF labels = {} THEN {[c \in {} |-> <<>>]}
    ELSE LET c == CHOOSE x \in labels : TRUE
         IN  {(c :> v) @@ r : v \in CellPool(c), r \in RowsOver(labels \ {c})}

\* The rows df.iterrows() may give for the columns cols.
RowPool(cols) == RowsOver({cols[k] : k \in 1..Len(cols)})

\* A row dict whose gg defaults to False when the column is missing.
EmitRow_DefaultFalse(r, cv_cols) ==
    LET spec_id == Strip(PyStr(Get(r, "specification", PyCell(<<>>))))
        from_name == Strip(PyStr(Get(r, "from", PyCell(<<>>))))
        configname == Strip(PyStr(Get(r, "configname", PyCell(<<>>))))
    IN  [from_name |-> from_name,
         spec_id |-> spec_id,
         config_name |-> IF configname # <<>> THEN configname
                         ELSE IF from_name # <<>> THEN from_name ELSE spec_id,
         spec_week |-> Strip(PyStr(Get(r, "effectivityweek", PyCell(<<>>)))),
         gg |-> ToBool(Get(r, "gg", PyBool(FALSE))),
         change_variants |->
             DedupePreserveOrder(
                 [k \in 1..Len(cv_cols) |-> Strip(PyStr(Get(r, cv_cols[k], PyCell(<<>>))))],
                 {})]

\* Lines 73-89: the dict appended for the row r.
EmitRow(r, cv_cols) ==
    LET spec_id == Strip(PyStr(Get(r, "specification", PyCell(<<>>))))
        from_name == Strip(PyStr(Get(r, "from", PyCell(<<>>))))
        configname == Strip(PyStr(Get(r, "configname", PyCell(<<>>))))
    IN  [from_name |-> from_name,
         spec_id |-> spec_id,
         config_name |-> IF configname # <<>> THEN configname
                         ELSE IF from_name # <<>> THEN from_name ELSE spec_id,
         spec_week |-> Strip(PyStr(Get(r, "effectivityweek", PyCell(<<>>)))),
         gg |-> ToBool(Get(r, "gg", PyBool(TRUE))),
         change_variants |->
             DedupePreserveOrder(
                 [k \in 1..Len(cv_cols) |-> Strip(PyStr(Get(r, cv_cols[k], PyCell(<<>>))))],
                 {})]

\* rows_from_df(df) is called on a frame with one of the layouts and up to
\* MaxRows rows.
InitRows ==
    /\ InitPipeline(1, {}, 0, 0)
    /\ uf = UfIdle
    /\ \E cols \in Layouts, n \in 0..MaxRows :
           rx = [pc |-> "start", cols |-> cols, left |-> n, cv_cols |-> <<>>,
                 rows |-> <<>>, src |-> <<>>]

\* Lines 66-71: has_gg, cv_start and cv_cols are computed, rows is empty.
RowsFromDf_Begin ==
    /\ rx.pc = "start"
    /\ LET has_gg == Len(rx.cols) >= 1 /\ rx.cols[1] = "gg"
           cv_start == IF has_gg THEN Len(<<"gg">> \o BaseHeaders) ELSE Len(BaseHeaders)
       IN  rx' = [rx EXCEPT !.pc = "for",
                            !.cv_cols = SubSeq(rx.cols, cv_start + 1, Len(rx.cols))]
    /\ UNCHANGED <<pipeline, uf>>

\* Lines 72-75: the next row has no specification and is skipped.
RowsFromDf_Skip ==
    /\ rx.pc = "for"
    /\ rx.left > 0
    /\ \E r \in RowPool(rx.cols) :
           /\ Strip(PyStr(Get(r, "specification", PyCell(<<>>)))) = <<>>
           /\ rx' = [rx EXCEPT !.left = rx.left - 1]
    /\ UNCHANGED <<pipeline, uf>>

\* Lines 72-89: the next row has a specification; its dict is appended.  src
\* keeps the row each dict was made from.
RowsFromDf_Append ==
    /\ rx.pc = "for"
    /\ rx.left > 0
    /\ \E r \in RowPool(rx.cols) :
           /\ Strip(PyStr(Get(r, "specification", PyCell(<<>>)))) # <<>>
           /\ rx' = [rx EXCEPT !.left = rx.left - 1,
                                !.rows = Append(rx.rows, EmitRow(r, rx.cv_cols)),
                                !.src = Append(rx.src, r)]
    /\ UNCHANGED <<pipeline, uf>>

\* Line 90: the frame has no more rows.
RowsFromDf_Return ==
    /\ rx.pc = "for"
    /\ rx.left = 0
    /\ rx' = [rx EXCEPT !.pc = "returned"]
    /\ UNCHANGED <<pipeline, uf>>

NextRows ==
    \/ RowsFromDf_Begin
    \/ RowsFromDf_Skip
    \/ RowsFromDf_Append
    \/ RowsFromDf_Return

\* rows_from_df called on every frame of the layouts and pools.
SpecRows == InitRows /\ [][NextRows]_vars

\* ---------------------------------------------------------------- fairness

\* The step of task w that follows an await of an external operation (row
\* reading, a network call, the login): the operation returned or failed.
Resume(w) ==
    /\ w \in Workers
    /\ \/ RowsRead(w)
       \/ RowsEmpty(w)
       \/ RowsInvalid(w)
       \/ CallOk(w)
       \/ \E e \in CallErrors : CallAuthError(w, e)
       \/ \E e \in CallErrors : CallOtherError(w, e)
       \/ RefreshOk(w)
       \/ RefreshFail(w)
       \/ RetryOk(w)
       \/ \E e \in CallErrors : RetryFail(w, e)

\* gather starts the tasks in the order of the files and the semaphore wakes
\* its waiters first come first served: w is the first task still waiting.
Fifo(w) == \A v \in Workers : v < w => pc[v] # "created"

\* The first waiting task is given a permit of the gate.
Admit(w) == Fifo(w) /\ Acquire(w)

\* One step of task w: it is given a permit of the gate, or it resumes.
Step(w) == Resume(w) \/ (w \in Workers /\ Admit(w))

\* One step of main and of run_pipeline, which run in sequence.
MainStep ==
    \/ RunPipeline_Begin
    \/ RunPipeline_Launch
    \/ RunPipeline_AuthFail
    \/ RunPipeline_Return
    \/ Main_Summary

\* The event loop runs every ready coroutine, every awaited external operation
\* ends, and a task waiting at the gate is woken when a permit is free.
Fairness(n) ==
    /\ WF_vars(MainStep)
    /\ \A w \in 0..(n - 1) : WF_vars(Step(w))

\* The program under fair scheduling.
FairSpec == Init /\ [][Next]_vars /\ Fairness(MaxFiles)

\* One file more than the gate has permits; the last file, the one that has to
\* wait for a permit, may fail once and no call is answered with an auth status.
InitQueue == InitWith(GateFiles, {SEMA}, 0, Cardinality({SEMA}))

\* The steps of NextGate with the tasks admitted in the order of their creation.
NextQueue ==
    \/ RunPipeline_Begin
    \/ RunPipeline_Launch
    \/ RunPipeline_AuthFail
    \/ RunPipeline_Return
    \/ Main_Summary
    \/ \E w \in Workers : Admit(w)
    \/ \E w \in Workers : RowsRead(w)
    \/ \E w \in Workers : RowsEmpty(w)
    \/ \E w \in Workers : RowsInvalid(w)
    \/ \E w \in Workers : CallOk(w)
    \/ \E w \in Workers, e \in CallErrors : CallOtherError(w, e)

\* The program with one file more than the gate has permits, under fair scheduling.
FairSpecGate == InitQueue /\ [][NextQueue]_vars /\ Fairness(GateFiles)

\* ------------------------------------------------------------------ claims

\* The tasks that have acquired the gate and not yet released it.
Holders == {w \in Workers : pc[w] \in {"reading", "call", "refresh", "retry"}}

AllTerminal == \A w \in Workers : pc[w] \in Terminal

\* C1: when run_pipeline returns, failures + len(durations) equals the number of
\* files: every task that ended Failed is counted as one failure and every task
\* that reached Done contributes one duration.
C1_OutcomeCount ==
    cpc = "returned" =>
        /\ failures + Len(durations) = nFiles
        /\ failures = Cardinality({w \in Workers : pc[w] = "Failed"})
        /\ Len(durations) = Cardinality({w \in Workers : pc[w] = "Done"})

\* Two files, one failed on an HTTP error and one done, and run_pipeline returned.
C1_Witness ==
    /\ cpc = "returned"
    /\ nFiles = 2
    /\ failures = 1
    /\ Len(durations) = 1
    /\ \E w \in Workers : results[w].kind = "HTTPStatusError"

\* C2: at most SEMA = 5 tasks are inside the gate in any reachable state.
C2_GateBound == SEMA = 5 /\ Cardinality(Holders) <= 5

\* Five tasks hold the gate and a sixth one is waiting for a permit.
C2_Witness ==
    /\ Cardinality(Holders) = 5
    /\ sema = 0
    /\ \E w \in Workers : pc[w] = "created"

\* C3 as stated: an invocation whose first call got an auth-class status has
\* made exactly one refresh() and exactly one retried call, however it went on.
C3_Original ==
    \A w \in Workers :
        inv[w].auth /\ pc[w] \in {"retry", "Failed"} =>
            inv[w].refreshes = 1 /\ inv[w].calls = 2

\* C3 as amended: an invocation whose first call got an auth-class status makes
\* exactly one refresh(); when that refresh succeeds it makes exactly one retried
\* call, whose failure propagates as the task's failure with no third call and
\* no second refresh; when that refresh fails there is no retried call.
C3_OneRefreshOneRetry ==
    \A w \in Workers :
        /\ inv[w].calls <= 2
        /\ inv[w].refreshes <= 1
        /\ inv[w].auth =>
            /\ inv[w].refreshes = 1
            /\ pc[w] \in {"refresh", "retry", "Failed"}
            /\ pc[w] = "refresh" => inv[w].calls = 1
            /\ pc[w] = "retry" => inv[w].calls = 2
            /\ pc[w] = "Failed" /\ results[w] = LoginError =>
                   inv[w].calls = 1 /\ inv[w].second = NoError
            /\ pc[w] = "Failed" /\ results[w] # LoginError =>
                   inv[w].calls = 2 /\ results[w] = inv[w].second
        /\ inv[w].second # NoError => inv[w].auth /\ pc[w] = "Failed"

\* A task failed on a second 401, given to its retried call.
C3_Witness ==
    \E w \in Workers :
        /\ pc[w] = "Failed"
        /\ inv[w].auth
        /\ inv[w].calls = 2
        /\ inv[w].refreshes = 1
        /\ results[w] = HTTPStatusError(401)

\* C4: a task ends Failed only on a failure of one of its own operations, so a
\* task whose own operations succeed is among the durations when run_pipeline
\* returns; of three files of which only the second has no rows, one is counted
\* failed and the two others contribute a duration.
C4_FailureIsolation ==
    /\ \A w \in Workers : pc[w] = "Failed" => fault[w] # "none"
    /\ cpc = "returned" =>
           \A w \in Workers :
               fault[w] = "none" => \E k \in 1..Len(durations) : durations[k] = w
    /\ ( /\ cpc = "returned"
         /\ nFiles = 3
         /\ fault = [w \in 0..2 |-> IF w = 1 THEN "rows" ELSE "none"] )
       => failures = 1 /\ durations = <<0, 2>>

\* Three files, the second had no rows, the first and third are done.
C4_Witness ==
    /\ cpc = "returned"
    /\ nFiles = 3
    /\ results[1] = NoRowsError
    /\ results[0] = Dt
    /\ results[2] = Dt
    /\ failures = 1

\* C5: a first call that fails with anything but an HTTP status 401, 403 or 419
\* ends the task Failed with that very failure, with no refresh() and no second
\* call.
C5_OtherErrorsPropagate ==
    \A w \in Workers :
        inv[w].first # NoError =>
            /\ pc[w] = "Failed"
            /\ results[w] = inv[w].first
            /\ inv[w].refreshes = 0
            /\ inv[w].calls = 1
            /\ ~inv[w].auth

\* A task failed on a status 500 and another on an error that is no HTTP status.
C5_Witness ==
    \E w, v \in Workers :
        /\ pc[w] = "Failed" /\ results[w] = HTTPStatusError(500)
        /\ inv[w].first = HTTPStatusError(500)
        /\ pc[v] = "Failed" /\ results[v] = OtherError

\* C6: every call of a network operation, first or retried, is made with a
\* client built from the bundle that is current when the call begins.
C6_FreshClient ==
    \A w \in Workers : pc[w] \in {"call", "retry"} => fresh[w]

\* C7: the retried call is made with a client built after this task's refresh()
\* stored its bundle: the client carries that bundle or a newer one, never the
\* bundle of the client of the failed first call.
C7_RetryUsesRefreshedClient ==
    \A w \in Workers :
        pc[w] = "retry" =>
            /\ inv[w].installed # NoBundle
            /\ c2[w].cookies >= inv[w].installed.cookies
            /\ c2[w].headers >= inv[w].installed.headers
            /\ c2[w] # client[w]

\* A retried call is in flight after another task's refresh: the retry client
\* is two acquisitions newer than the client of the first call.
C7_Witness ==
    \E w \in Workers :
        /\ pc[w] = "retry"
        /\ client[w] = NewClient(Login(1))
        /\ c2[w] = NewClient(Login(3))

\* C8: no task exists, holds the gate, has a client or is in a call before the
\* initial refresh() of run_pipeline has stored a bundle.
C8_AuthBeforeWorkers ==
    /\ (\E w \in Workers : pc[w] # "none") =>
           /\ cpc \in {"gather", "returned", "exited"}
           /\ nAcq >= 1
           /\ bundle.cookies >= 1 /\ bundle.headers >= 1
    /\ \A w \in Workers :
           pc[w] \in {"call", "refresh", "retry"} =>
               client[w].cookies >= 1 /\ client[w].headers >= 1
    /\ cpc \in {"start", "auth", "raised"} => Holders = {} /\ sema = SEMA

\* A task is in its first call with a client of the first acquisition.
C8_Witness ==
    \E w \in Workers : pc[w] = "call" /\ client[w] = NewClient(Login(1)) /\ nAcq = 1

\* C9: the stored bundle and every client built from it carry the cookies and
\* the headers of one acquisition.
C9_AtomicBundle ==
    /\ bundle.cookies = bundle.headers
    /\ \A w \in Workers :
           /\ client[w].cookies = client[w].headers
           /\ c2[w].cookies = c2[w].headers

\* One task is refreshing, another is in the retried call after its own refresh,
\* and a third is in a call with a client it built from the bundle that refresh
\* stored.
C9_Witness ==
    \E u, v, w \in Workers :
        /\ pc[u] = "refresh"
        /\ pc[v] = "retry" /\ c2[v] = NewClient(Login(2))
        /\ pc[w] = "call" /\ client[w] = NewClient(Login(2))

\* C10: the free permits are exactly those no task inside the gate holds, so a
\* task that left on any path holds none, and once every task is terminal all
\* SEMA permits are free.
C10_PermitsReleased ==
    /\ sema = SEMA - Cardinality(Holders)
    /\ AllTerminal => sema = SEMA

\* Every task is terminal, one after each failure path, and all permits are free.
C10_Witness ==
    /\ cpc = "gather"
    /\ AllTerminal
    /\ sema = SEMA
    /\ \E u, v, w \in Workers :
           /\ fault[u] = "refresh"
           /\ fault[v] = "retry"
           /\ fault[w] \in {"rows", "headers", "call"}

\* C11: under fair scheduling every launched task ends Done or Failed, also when
\* there are more files than permits, and run_pipeline returns only when every
\* task has ended.
C11_AllWorkersFinish ==
    /\ (cpc = "gather") ~> AllTerminal
    /\ [](cpc \in {"returned", "exited"} => AllTerminal)

\* Six files, more than the gate has permits, have all ended and run_pipeline
\* has returned.
C11_Witness ==
    /\ nFiles > SEMA
    /\ cpc = "returned"
    /\ AllTerminal
    /\ \E w \in Workers : pc[w] = "Failed"
    /\ \E w \in Workers : pc[w] = "Done"

\* C12: the stages of one file run in order: the fetch starts only when the rows
\* were read, each later call only when the call before it returned, Done is
\* reached only from a returned download, and a task never goes back to an
\* earlier stage or leaves Done or Failed.
C12_StagesInOrder ==
    [][\A w \in Workers :
        /\ stage'[w] # stage[w] =>
              \/ stage[w] = 0 /\ pc[w] = "reading" /\ stage'[w] = 1 /\ pc'[w] = "call"
              \/ /\ stage[w] \in 1..3
                 /\ pc[w] \in {"call", "retry"}
                 /\ stage'[w] = stage[w] + 1
                 /\ pc'[w] = "call"
              \/ stage'[w] = 0 /\ pc[w] \notin Terminal /\ pc'[w] \in Terminal
        /\ (pc'[w] = "Done" /\ pc[w] # "Done") =>
              stage[w] = 4 /\ pc[w] \in {"call", "retry"}
        /\ pc[w] = "reading" => pc'[w] \in {"reading", "call", "Failed"}
        /\ pc[w] \in Terminal => pc'[w] = pc[w] /\ stage'[w] = stage[w]
      ]_vars

\* One task is Done while another one is downloading on the retry path.
C12_Witness ==
    \E v, w \in Workers :
        /\ pc[v] = "Done"
        /\ results[v] = Dt
        /\ pc[w] = "retry"
        /\ stage[w] = 4

\* C13: (as claimed) the percent values a task reports for its slot never
\* decrease, also when a stage goes through the refresh and retry path.
C13_PercentMonotone ==
    [][\A w \in Workers :
        pc[w] \in {"reading", "call", "refresh", "retry"} => bars'[w].n >= bars[w].n
      ]_vars

\* C14: when the login of a refresh started by with_auth_retry fails, the task
\* ends Failed with the login error, after one call and one refresh and without a
\* retried call; the stored bundle stays as it was and neither the other tasks
\* nor run_pipeline are touched.
C14_RefreshFailureIsLocal ==
    /\ [](\A w \in Workers :
            fault[w] = "refresh" =>
                /\ pc[w] = "Failed"
                /\ results[w] = LoginError
                /\ inv[w].calls = 1
                /\ inv[w].refreshes = 1
                /\ inv[w].installed = NoBundle)
    /\ [][\A w \in Workers :
            (pc[w] = "refresh" /\ pc'[w] = "Failed") =>
                /\ bundle' = bundle
                /\ nAcq' = nAcq
                /\ cpc' = cpc
                /\ \A v \in Workers \ {w} :
                       pc'[v] = pc[v] /\ results'[v] = results[v]
         ]_vars

\* The refresh of one task failed, another task is Done and run_pipeline has
\* returned one failure and one duration.
C14_Witness ==
    /\ cpc = "returned"
    /\ failures = 1
    /\ \E v, w \in Workers :
           /\ fault[w] = "refresh"
           /\ pc[w] = "Failed"
           /\ pc[v] = "Done"
           /\ bundle # NoBundle

\* C15: a task whose file has invalid headers or no valid row ends Failed
\* before any network activity: while the rows are read no client was built and
\* no call or refresh was made, and a task that failed on its rows made none.
C15_RowFailureBeforeNetwork ==
    \A w \in Workers :
        /\ pc[w] \in {"created", "reading"} =>
               /\ client[w] = NoBundle
               /\ c2[w] = NoBundle
               /\ stage[w] = 0
               /\ inv[w] = NewInv
        /\ fault[w] \in {"rows", "headers"} =>
               /\ pc[w] = "Failed"
               /\ results[w] = (IF fault[w] = "rows" THEN NoRowsError ELSE HeaderError)
               /\ client[w] = NoBundle
               /\ stage[w] = 0
               /\ inv[w] = NewInv

\* One file had invalid headers and another one had no rows; both tasks have
\* failed and only the initial login was made.
C15_Witness ==
    /\ nAcq = 1
    /\ \E v, w \in Workers :
           /\ fault[v] = "headers"
           /\ fault[w] = "rows"
           /\ pc[v] = "Failed"
           /\ pc[w] = "Failed"

\* C16: (as claimed) whenever main has ended after starting the pipeline, the
\* summary with the counts of files, failures and successes has been printed,
\* also when a credential acquisition failed.
C16_SummaryAlwaysPrinted ==
    cpc \in {"raised", "exited"} =>
        summary = PrintSummary(nFiles, failures, durations)

\* C19: (as claimed) download is invoked at most once for the ready location of
\* a file, also when the download stage goes through the retry path.
C19_Original ==
    \A w \in Workers : stage[w] = 4 => inv[w].calls <= 1

\* C19: download is invoked at most twice for the ready location of a file, and
\* a second time only as the one retried call, after the first call failed with
\* an auth status and the one refresh stored a new bundle.
C19_DownloadAtMostTwice ==
    \A w \in Workers :
        stage[w] = 4 =>
            /\ inv[w].calls \in {1, 2}
            /\ inv[w].calls = 2 =>
                   /\ pc[w] = "retry"
                   /\ inv[w].auth
                   /\ inv[w].refreshes = 1
                   /\ inv[w].installed # NoBundle
            /\ pc[w] = "retry" => inv[w].calls = 2

\* A task is in its second download call, made with the client built after the
\* refresh.
C19_Witness ==
    \E w \in Workers :
        /\ stage[w] = 4
        /\ pc[w] = "retry"
        /\ inv[w].calls = 2
        /\ c2[w] = NewClient(bundle)

\* C20: (as claimed) a task that has ended Failed because a call, a retried call
\* or a refresh failed has reported the failure on its slot of the board, as the
\* task that found no rows has.
C20_FailureReported ==
    \A w \in Workers :
        /\ fault[w] = "rows" => bars[w].red
        /\ (pc[w] = "Failed" /\ fault[w] \in {"call", "retry", "refresh"}) => bars[w].red

\* C17: unique_filename returns a name that does not exist in the folder: the
\* name asked for when it is free, otherwise stem(i)ext for the smallest i >= 1
\* that is free.
C17_UniqueFilename ==
    uf.pc = "returned" =>
        /\ uf.candidate \notin uf.existing
        /\ uf.name \notin uf.existing => uf.candidate = uf.name
        /\ uf.name \in uf.existing =>
               \E i \in 1..(MaxIndex + 1) :
                   /\ uf.candidate = Numbered(Stem(uf.name), i, Suffix(uf.name))
                   /\ \A j \in 1..(i - 1) :
                          Numbered(Stem(uf.name), j, Suffix(uf.name)) \in uf.existing

\* r.z and r(1).z exist and r(2).z is returned for r.z.
C17_Witness ==
    /\ uf.pc = "returned"
    /\ uf.name = <<"r", ".", "z">>
    /\ <<"r", ".", "z">> \in uf.existing
    /\ <<"r", "(", "1", ")", ".", "z">> \in uf.existing
    /\ uf.candidate = <<"r", "(", "2", ")", ".", "z">>

\* C18: every row emitted by rows_from_df has gg true when the frame has no gg
\* column; when it has one, gg is true exactly when the row's gg cell, trimmed
\* and lower-cased, is a truthy token, so a blank cell gives false.
C18_GgFlag ==
    rx.pc \in {"for", "returned"} =>
        /\ Len(rx.rows) = Len(rx.src)
        /\ \A k \in 1..Len(rx.rows) :
               LET r == rx.src[k]
               IN  rx.rows[k].gg =
                       IF "gg" \notin DOMAIN r THEN TRUE
                       ELSE Lower(Strip(r["gg"])) \in TRUTHY

\* rows_from_df has returned two rows from a frame with a gg column: gg is
\* false for the blank cell and true for the cell " Yes ".
C18_Witness ==
    /\ rx.pc = "returned"
    /\ rx.cols[1] = "gg"
    /\ Len(rx.rows) >= 2
    /\ rx.src[1]["gg"] = <<" ">>
    /\ ~rx.rows[1].gg
    /\ rx.src[2]["gg"] = <<" ", "Y", "e", "s", " ">>
    /\ rx.rows[2].gg

\* auth.refresh() calls made so far by the tasks of the set ws.
RECURSIVE RefreshCalls(_)
RefreshCalls(ws) ==
    IF ws = {} THEN 0
    ELSE LET w == CHOOSE x \in ws : TRUE
         IN  nRefresh[w] + RefreshCalls(ws \ {w})

\* C21: a task calls refresh() at most once in one wrapped operation, makes at
\* most two calls of it, and so refreshes at most four times in all; with the
\* initial one, a run of N files makes at most 1 + 4N credential acquisitions.
C21_RefreshesBounded ==
    /\ \A w \in Workers :
           /\ inv[w].refreshes <= 1
           /\ inv[w].calls <= 2
           /\ nRefresh[w] <= Cardinality(Stages)
           /\ Cardinality(Stages) = 4
           /\ stage[w] > 0 => nRefresh[w] <= stage[w]
    /\ RefreshCalls(Workers) <= 4 * nFiles
    /\ nAcq <= 1 + RefreshCalls(Workers)
    /\ nAcq <= 1 + 4 * nFiles

\* Every call of both files was answered with an auth status once: each task
\* has refreshed four times and the run has made 1 + 4 * 2 acquisitions.
C21_Witness ==
    /\ cpc = "returned"
    /\ \A w \in Workers : nRefresh[w] = 4 /\ pc[w] = "Done"
    /\ nAcq = 1 + 4 * nFiles

\* The tasks whose login of a refresh is under way, and those with a fetch,
\* post_search, poll or download call under way.
Refreshing == {w \in Workers : pc[w] = "refresh"}
Calling == {w \in Workers : pc[w] \in {"call", "retry"}}

\* C22: a task reads its rows, makes its calls and refreshes only between taking
\* a permit and giving it back, so at most 5 logins and at most 5 calls are under
\* way at a time; a login under way can end whatever the other tasks do
\* (refreshes are not serialized) and every one that ends is an acquisition of
\* its own (they are not coalesced).
C22_WorkUnderPermit ==
    /\ [](/\ sema >= 0
          /\ Cardinality(Refreshing \cup Calling \cup {w \in Workers : pc[w] = "reading"})
                 = SEMA - sema
          /\ Cardinality(Refreshing) <= 5
          /\ Cardinality(Calling) <= 5
          /\ \A w \in Refreshing : ENABLED RefreshOk(w))
    /\ [][\A w \in Workers :
            /\ (pc[w] \in {"none", "created"} /\ pc'[w] \notin {"none", "created"}) =>
                   pc'[w] = "reading" /\ sema > 0 /\ sema' = sema - 1
            /\ (pc[w] \notin Terminal /\ pc'[w] \in Terminal) =>
                   pc[w] \in {"reading", "call", "refresh", "retry"} /\ sema' = sema + 1
            /\ (pc[w] = "refresh" /\ pc'[w] = "retry") =>
                   /\ nAcq' = nAcq + 1
                   /\ bundle' = Login(nAcq + 1)
                   /\ c2'[w] = NewClient(Login(nAcq + 1))
                   /\ sema' = sema
         ]_vars

\* Two tasks, each holding a permit, have their logins under way at the same
\* time.
C22_Witness ==
    /\ Cardinality(Refreshing) = 2
    /\ sema = SEMA - 2

\* C23: a step of task w changes no slot of the board but slot w; the slot is
\* closed by its task in the step that ends the task, either by complete (100,
\* the task is Done with its duration) or by fail (red, the task is Failed),
\* and a task that has ended reports nothing more.
C23_SlotOwnership ==
    /\ [](cpc = "gather" =>
            \A w \in Workers :
                bars[w].closed =>
                    \/ bars[w].red /\ pc[w] = "Failed" /\ bars[w].n < 100
                    \/ ~bars[w].red /\ pc[w] = "Done" /\ results[w] = Dt /\ bars[w].n = 100)
    /\ [][cpc' = cpc =>
            \A w \in Workers :
                /\ (pc'[w] # pc[w] \/ stage'[w] # stage[w]) =>
                       \A i \in Workers \ {w} : bars'[i] = bars[i]
                /\ (cpc = "gather" /\ ~bars[w].closed /\ bars'[w].closed) =>
                       pc[w] \notin Terminal /\ pc'[w] \in Terminal
                /\ (cpc = "gather" /\ pc[w] \in Terminal) =>
                       bars'[w] = bars[w] /\ pc'[w] = pc[w]
         ]_vars

\* Of two tasks, the first has called fail on its slot and the second complete
\* on its own; run_pipeline has not yet closed the board.
C23_Witness ==
    /\ cpc = "gather"
    /\ nFiles = 2
    /\ bars[0].red /\ bars[0].closed /\ pc[0] = "Failed"
    /\ bars[1].n = 100 /\ bars[1].closed /\ ~bars[1].red /\ pc[1] = "Done"

\* C24: when the initial refresh() of run_pipeline fails, run_pipeline raises
\* and that is its end: no task was created, no permit taken, no board made, no
\* bundle stored, no call made, and neither a result nor a summary produced.
C24_InitialAuthFailure ==
    /\ [](cpc = "raised" =>
            /\ \A w \in Workers :
                   /\ pc[w] = "none"
                   /\ stage[w] = 0
                   /\ client[w] = NoBundle
                   /\ inv[w] = NewInv
                   /\ nRefresh[w] = 0
                   /\ results[w] = Pending
            /\ sema = SEMA
            /\ DOMAIN bars = {}
            /\ bundle = NoBundle
            /\ nAcq = 0
            /\ failures = 0
            /\ durations = <<>>
            /\ summary = NoSummary)
    /\ [][cpc = "raised" => vars' = vars]_vars
    /\ [][cpc' = "raised" => cpc \in {"auth", "raised"}]_vars

\* The initial login has failed and run_pipeline has raised, with two files
\* waiting.
C24_Witness ==
    /\ cpc = "raised"
    /\ nFiles = 2
    /\ \A w \in Workers : pc[w] = "none"

====
